---- MODULE Spec2Model ----
(***************************************************************************)
(* Minesweeper engine (src/_util/grid.ts), its solvers and hint service    *)
(* (src/app/AiBehavior.tsx) and the page handlers that drive them          *)
(* (src/app/page.tsx), as a state machine.                                 *)
(*                                                                         *)
(* Specifications:                                                         *)
(*   SpecPlace  the rejection-sampling loop of placeMines, one sample per  *)
(*              step, on the mine-free boards its callers pass;            *)
(*   SpecPlaceFair  the same loop under fair sampling;                     *)
(*   SpecGrid   the board primitives (computeAdjacency, floodFill,         *)
(*              checkWin) applied to boards drawn from a bounded set;      *)
(*   SpecClone  cloneBoard on a heap of cell objects, followed by field    *)
(*              writes through the clone;                                  *)
(*   Spec       a whole session: player reveals and flag toggles, solver   *)
(*              turns, hints and resets on the committed board;            *)
(*   SpecSweep  a session in which the player first flags every cell;      *)
(*   SpecPage   the page with its AI modes: interval callback, clicks,     *)
(*              mode and difficulty selectors;                             *)
(*   SpecAuto   an automatic-mode session driven by the interval alone;    *)
(*   SpecHard   a fresh session in which only hardAi(ctx) acts;             *)
(*   SpecHints  the player alone, with reveals, flags and the Hint button. *)
(***************************************************************************)
EXTENDS Integers, Sequences, FiniteSets, TLC

VARIABLES
  board,      \* committed board (Spec) or the board operated on: Pos -> Cell
  started,    \* page.tsx `started`
  gameOver,   \* page.tsx `gameOver`: "null" | "lost" | "won"
  flagsLeft,  \* page.tsx `flagsLeft`
  hintUses,   \* AiBehavior.tsx module-level `hintUses`
  pc,         \* which specification / phase the state belongs to
  ret,        \* SpecGrid: the value checkWin returned
  orig,       \* the board value an operation of SpecGrid/SpecClone started from
  arg,        \* cell argument of the last operation (exclude / start / target)
  cnt,        \* placeMines: requested count; SpecClone: writes done so far
  placed,     \* placeMines: loop variable `placed`
  heap,       \* SpecClone: cell objects by reference
  objA,       \* SpecClone: the source board, Pos -> reference
  objB,       \* SpecClone: the clone, Pos -> reference
  firstCell,  \* Spec: the cell whose opening revealed the session's first cell
  hintCalls,  \* Spec: hint calls since the last reset, counted up to MaxHintCalls
  hintPubs,   \* Spec: hint calls since the last reset that called setBoard
  aiMode,     \* page.tsx `aiMode`: "off" | "interactive" | "automatic"
  isUserTurn, \* page.tsx `isUserTurn`
  aiDifficulty, \* page.tsx `aiDifficulty`: "easy" | "medium" | "hard"
  hintsUsed   \* page.tsx `hintsUsed`

vars == <<board, started, gameOver, flagsLeft, hintUses, pc, ret, orig, arg,
          cnt, placed, heap, objA, objB, firstCell, hintCalls, hintPubs,
          aiMode, isUserTurn, aiDifficulty, hintsUsed>>

\* the mode state of the page, which only the handlers of SpecPage write
pageVars == <<aiMode, isUserTurn, aiDifficulty>>

(***************************************************************************)
(* Bounds                                                                  *)
(***************************************************************************)
\* board dimension (page.tsx uses 10; every routine takes it as a parameter)
GridSize == 3
\* configured mine count of a session (page.tsx allows 10..20 on 10x10)
MineCount == 2
\* flags standing on the board up to which the player may add another one
MaxPlayerFlags == 1
\* field writes made through a clone in SpecClone
MaxWrites == 1
\* hint calls between two resets that are told apart; later ones count as this
MaxHintCalls == 4

MAX_HINTS == 3

NoCell == <<-1, -1>>

Pos == (0 .. GridSize - 1) \X (0 .. GridSize - 1)

Abs(x) == IF x < 0 THEN -x ELSE x

\* cells in row-major order, the order of every `for r / for c` scan
RowMajor == [i \in 1 .. GridSize * GridSize |->
               <<(i - 1) \div GridSize, (i - 1) % GridSize>>]

\* the (dr, dc) pairs of `for dr of dirs for dc of dirs`, self skipped
DirPairs == << <<-1, -1>>, <<-1, 0>>, <<-1, 1>>, <<0, -1>>,
               <<0, 1>>, <<1, -1>>, <<1, 0>>, <<1, 1>> >>

InBounds(r, c, rows, cols) == r >= 0 /\ r < rows /\ c >= 0 /\ c < cols

\* in-bounds neighbours of p in scan order
NbrSeq(p, size) ==
  LET all == [i \in 1 .. 8 |-> <<p[1] + DirPairs[i][1], p[2] + DirPairs[i][2]>>]
  IN SelectSeq(all, LAMBDA q : InBounds(q[1], q[2], size, size))

\* NbrSeq for the session's grid, by cell
Nbrs == [p \in Pos |-> NbrSeq(p, GridSize)]

Range(s) == {s[i] : i \in 1 .. Len(s)}

(***************************************************************************)
(* grid.ts                                                                 *)
(***************************************************************************)
Cell(m, a, r, f) == [isMine |-> m, adjacent |-> a, revealed |-> r, flagged |-> f]

createEmptyBoard(rows, cols) ==
  [p \in (0 .. rows - 1) \X (0 .. cols - 1) |-> Cell(FALSE, 0, FALSE, FALSE)]

MinesOf(b) == {p \in DOMAIN b : b[p].isMine}
RevealedOf(b) == {p \in DOMAIN b : b[p].revealed}
FlaggedOf(b) == {p \in DOMAIN b : b[p].flagged}

\* grid.ts:185 with the comparison off by one: only the cell itself excluded
InExclusionStrict(r, c, exclude) ==
  Abs(r - exclude[1]) < 1 /\ Abs(c - exclude[2]) < 1

\* grid.ts:185  Math.abs(r - exclude.r) <= 1 && Math.abs(c - exclude.c) <= 1
InExclusion(r, c, exclude) ==
  Abs(r - exclude[1]) <= 1 /\ Abs(c - exclude[2]) <= 1

\* one iteration of the while loop of placeMines for the sample (r, c):
\* the board and `placed` after it
placeMinesIter(b, n, exclude, r, c) ==
  IF InExclusion(r, c, exclude) THEN [board |-> b, placed |-> n]
  ELSE IF ~b[<<r, c>>].isMine
       THEN [board |-> [b EXCEPT ![<<r, c>>].isMine = TRUE], placed |-> n + 1]
       ELSE [board |-> b, placed |-> n]

\* the boards placeMines(b, mines, exclude) can return: the loop ends exactly
\* when `mines` distinct non-excluded cells that were not mines are marked
placeMines(b, mines, exclude) ==
  LET eligible == {p \in DOMAIN b : ~InExclusion(p[1], p[2], exclude) /\ ~b[p].isMine}
  IN { [p \in DOMAIN b |-> IF p \in S THEN [b[p] EXCEPT !.isMine = TRUE] ELSE b[p]] :
         S \in {T \in SUBSET eligible : Cardinality(T) = mines} }

\* grid.ts:223 with the upper bound off by one
adjacentCountShort(b, p, rows, cols) ==
  Cardinality({i \in 1 .. 8 :
     LET nr == p[1] + DirPairs[i][1]
         nc == p[2] + DirPairs[i][2]
     IN nr >= 0 /\ nr < rows - 1 /\ nc >= 0 /\ nc < cols - 1 /\ b[<<nr, nc>>].isMine})

\* the inner loops of computeAdjacency: `count` for cell p
adjacentCount(b, p, rows, cols) ==
  Cardinality({i \in 1 .. 8 :
     LET nr == p[1] + DirPairs[i][1]
         nc == p[2] + DirPairs[i][2]
     IN InBounds(nr, nc, rows, cols) /\ b[<<nr, nc>>].isMine})

computeAdjacency(b) ==
  [p \in DOMAIN b |->
     IF b[p].isMine THEN [b[p] EXCEPT !.adjacent = -1]
     ELSE [b[p] EXCEPT !.adjacent = adjacentCount(b, p, GridSize, GridSize)]]

\* grid.ts:267 without the mine test on pushed neighbours
floodPushAll(b, p, size) ==
  SelectSeq(NbrSeq(p, size), LAMBDA q : ~b[q].revealed)

\* the neighbours floodFill pushes after revealing a zero cell p
floodPush(b, p, size) ==
  SelectSeq(NbrSeq(p, size), LAMBDA q : ~b[q].revealed /\ ~b[q].isMine)

RECURSIVE floodLoop(_, _, _)
floodLoop(b, size, stack) ==
  IF stack = <<>> THEN b
  ELSE LET top  == stack[Len(stack)]
           rest == SubSeq(stack, 1, Len(stack) - 1)
           cur  == b[top]
       IN IF cur.revealed \/ cur.flagged THEN floodLoop(b, size, rest)
          ELSE LET b1 == [b EXCEPT ![top].revealed = TRUE]
               IN floodLoop(b1, size,
                    IF cur.adjacent = 0 THEN rest \o floodPush(b1, top, size) ELSE rest)

floodFill(b, size, row, col) == floodLoop(b, size, << <<row, col>> >>)

\* page.tsx:183 requiring every mine to carry a flag
checkWinFlags(b) ==
  \A p \in DOMAIN b : IF b[p].isMine THEN ~b[p].revealed /\ b[p].flagged ELSE b[p].revealed

\* page.tsx:183
checkWin(b) ==
  \A p \in DOMAIN b : IF b[p].isMine THEN ~b[p].revealed ELSE b[p].revealed

\* page.tsx:154 the updater of revealMines
revealMinesOn(b) ==
  [p \in DOMAIN b |-> IF b[p].isMine THEN [b[p] EXCEPT !.revealed = TRUE] ELSE b[p]]

(***************************************************************************)
(* SpecPlace: placeMines, one sample of the loop per step                  *)
(***************************************************************************)
\* at most one cell of a board carries a mark: revealed, or flagged
Marks ==
  {[revealed |-> {}, flagged |-> {}]}
    \cup {[revealed |-> {p}, flagged |-> {}] : p \in Pos}
    \cup {[revealed |-> {}, flagged |-> {p}] : p \in Pos}

Idle ==
  /\ started = FALSE /\ gameOver = "null" /\ flagsLeft = MineCount /\ hintUses = 0
  /\ ret = ""
  /\ heap = <<>> /\ objA = <<>> /\ objB = <<>> /\ firstCell = NoCell
  /\ hintCalls = 0 /\ hintPubs = 0
  /\ aiMode = "off" /\ isUserTurn = TRUE /\ aiDifficulty = "easy"
  /\ hintsUsed = 0

IdleUnchanged ==
  UNCHANGED <<started, gameOver, flagsLeft, hintUses, ret, heap, objA, objB,
              firstCell, hintCalls, hintPubs, pageVars, hintsUsed>>

\* the boards the callers pass to placeMines: no mine yet
PlaceInit ==
  /\ Idle
  /\ pc = "pm"
  /\ \E m \in Marks :
       board = [p \in Pos |-> Cell(FALSE, 0, p \in m.revealed, p \in m.flagged)]
  /\ orig = board
  /\ arg \in Pos
  /\ cnt \in 0 .. MineCount
  /\ placed = 0

PlaceSample ==
  /\ pc = "pm"
  /\ placed < cnt
  /\ \E r \in 0 .. GridSize - 1, c \in 0 .. GridSize - 1 :
       LET it == placeMinesIter(board, placed, arg, r, c)
       IN /\ board' = it.board
          /\ placed' = it.placed
  /\ UNCHANGED <<pc, orig, arg, cnt>>
  /\ IdleUnchanged

PlaceReturn ==
  /\ pc = "pm"
  /\ ~(placed < cnt)
  /\ pc' = "pm_done"
  /\ UNCHANGED <<board, placed, orig, arg, cnt>>
  /\ IdleUnchanged

PlaceNext == PlaceSample \/ PlaceReturn

SpecPlace == PlaceInit /\ [][PlaceNext]_vars

\* Math.random() is fair: a sample that changes the board is not avoided for
\* ever while one exists, and the loop test is evaluated once the count is met
SpecPlaceFair ==
  PlaceInit /\ [][PlaceNext]_vars /\ WF_vars(PlaceSample) /\ WF_vars(PlaceReturn)

PlaceMinesAgrees ==
  pc = "pm_done" => board \in placeMines(orig, cnt, arg)


(***************************************************************************)
(* SpecGrid: computeAdjacency, floodFill and checkWin on bounded boards    *)
(***************************************************************************)
\* boards as placeMines leaves them (adjacent still 0), with at most one
\* cell already revealed or flagged
GridBoards ==
  { [p \in Pos |-> Cell(p \in S, 0, p \in m.revealed, p \in m.flagged)] :
      S \in {T \in SUBSET Pos : Cardinality(T) <= MineCount}, m \in Marks }

GridInit ==
  /\ Idle
  /\ pc = "grid"
  /\ board \in GridBoards
  /\ orig = board
  /\ arg = NoCell
  /\ cnt = 0
  /\ placed = 0

GridComputeAdjacency ==
  /\ pc = "grid"
  /\ board' = computeAdjacency(board)
  /\ orig' = board
  /\ pc' = "adj"
  /\ UNCHANGED <<arg, cnt, placed>>
  /\ IdleUnchanged

\* floodFill on a board with its adjacency computed, or on an unmarked board
\* as placeMines leaves it
GridFloodFill ==
  /\ \/ pc = "adj"
     \/ pc = "grid" /\ RevealedOf(board) \cup FlaggedOf(board) = {}
  /\ \E p \in Pos :
       /\ board' = floodFill(board, GridSize, p[1], p[2])
       /\ arg' = p
  /\ orig' = board
  /\ pc' = "flood"
  /\ UNCHANGED <<cnt, placed>>
  /\ IdleUnchanged

GridCheckWin ==
  /\ pc \in {"adj", "flood"}
  /\ ret' = IF checkWin(board) THEN "true" ELSE "false"
  /\ pc' = "win"
  /\ UNCHANGED <<board, orig, arg, cnt, placed>>
  /\ UNCHANGED <<started, gameOver, flagsLeft, hintUses, heap, objA, objB,
                 firstCell, hintCalls, hintPubs, pageVars, hintsUsed>>

GridNext == GridComputeAdjacency \/ GridFloodFill \/ GridCheckWin

SpecGrid == GridInit /\ [][GridNext]_vars

Chebyshev(p, q) ==
  LET dr == Abs(p[1] - q[1])
      dc == Abs(p[2] - q[2])
  IN IF dr > dc THEN dr ELSE dc

\* C4: after computeAdjacency every non-mine cell's adjacent is the number of
\* mines at Chebyshev distance 1 on the board, and every mine's adjacent is -1.
C4_AdjacencyExact ==
  pc = "adj" =>
    \A p \in Pos :
      /\ board[p].isMine => board[p].adjacent = -1
      /\ ~board[p].isMine =>
           board[p].adjacent =
             Cardinality({q \in Pos : Chebyshev(p, q) = 1 /\ board[q].isMine})
      /\ board[p].isMine = orig[p].isMine

C4_Witness ==
  /\ pc = "adj"
  /\ \E p \in Pos : board[p].adjacent = 2
  /\ \E p \in Pos : board[p].adjacent = -1
  /\ \E p \in Pos : board[p].adjacent = 0

NewlyRevealed == RevealedOf(board) \ RevealedOf(orig)

\* C5 as stated: floodFill never sets revealed on a flagged or a mine cell,
\* whatever the starting cell.
C5_FloodNeverMineOrFlag ==
  pc = "flood" =>
    \A p \in NewlyRevealed : ~board[p].flagged /\ ~board[p].isMine

\* C5 amended: floodFill never sets revealed on a flagged cell, nor on a mine
\* other than the starting cell itself.
C5_FloodNeverMineButStart ==
  pc = "flood" =>
    \A p \in NewlyRevealed : ~board[p].flagged /\ (board[p].isMine => p = arg)

\* an expansion that walked past a flagged cell and next to a mine
C5_Witness ==
  /\ pc = "flood"
  /\ Cardinality(NewlyRevealed) >= 3
  /\ \E p \in NewlyRevealed : \E q \in Pos :
       Chebyshev(p, q) = 1 /\ board[p].adjacent = 0 /\ board[q].flagged
  /\ \E p \in NewlyRevealed : \E q \in Pos :
       Chebyshev(p, q) = 1 /\ board[q].isMine /\ ~board[q].revealed

WithFlags(b, F) == [p \in DOMAIN b |-> [b[p] EXCEPT !.flagged = p \in F]]

\* C7: checkWin is true exactly when the revealed cells are the non-mine
\* cells, and its result does not change when the flags are removed or when
\* any one cell's flag is toggled.
C7_CheckWinIff ==
  pc = "win" =>
    /\ (ret = "true") <=> (RevealedOf(board) = Pos \ MinesOf(board))
    /\ checkWin(WithFlags(board, {})) <=> (ret = "true")
    /\ \A p \in Pos :
         checkWin([board EXCEPT ![p].flagged = ~board[p].flagged]) <=> (ret = "true")

\* a won board on which no mine carries a flag
C7_Witness ==
  /\ pc = "win"
  /\ ret = "true"
  /\ MinesOf(board) # {}
  /\ FlaggedOf(board) \cap MinesOf(board) = {}

(***************************************************************************)
(* SpecClone: cloneBoard over cell objects                                 *)
(***************************************************************************)
Index(p) == p[1] * GridSize + p[2] + 1

\* the cell values a board object denotes in a heap
ValueOf(h, b) == [p \in DOMAIN b |-> h[b[p]]]

\* a copy of the rows only: the clone's rows hold the source's cell objects
cloneBoardShared(h, b) == [heap |-> h, board |-> b]

\* grid.ts:287  board.map(row => row.map(cell => ({ ...cell }))): one new
\* object per cell, holding the source cell's field values
cloneBoard(h, b) ==
  LET k == Len(h)
      n == GridSize * GridSize
  IN [heap  |-> h \o [i \in 1 .. n |-> h[b[RowMajor[i]]]],
      board |-> [p \in DOMAIN b |-> k + Index(p)]]

CloneBoards ==
  { [p \in Pos |-> Cell(p \in S, 0, p \in m.revealed, p \in m.flagged)] :
      S \in {T \in SUBSET Pos : Cardinality(T) <= 1}, m \in Marks }

CloneInit ==
  /\ started = FALSE /\ gameOver = "null" /\ flagsLeft = MineCount /\ hintUses = 0
  /\ ret = ""
  /\ firstCell = NoCell /\ hintCalls = 0 /\ hintPubs = 0
  /\ aiMode = "off" /\ isUserTurn = TRUE /\ aiDifficulty = "easy"
  /\ hintsUsed = 0
  /\ pc = "clone"
  /\ \E b \in CloneBoards :
       /\ board = IF \E p \in Pos : b[p].isMine THEN computeAdjacency(b) ELSE b
       /\ orig = board
       /\ heap = [i \in 1 .. GridSize * GridSize |-> board[RowMajor[i]]]
  /\ objA = [p \in Pos |-> Index(p)]
  /\ objB = <<>>
  /\ arg = NoCell
  /\ cnt = 0
  /\ placed = 0

CloneCall ==
  /\ pc = "clone"
  /\ LET cl == cloneBoard(heap, objA)
     IN /\ heap' = cl.heap
        /\ objB' = cl.board
  /\ pc' = "cloned"
  /\ UNCHANGED <<board, started, gameOver, flagsLeft, hintUses, ret, orig, arg,
                 cnt, placed, objA, firstCell, hintCalls, hintPubs, pageVars, hintsUsed>>

\* one assignment clone[r][c].field = value
CloneWrite ==
  /\ pc = "cloned"
  /\ cnt < MaxWrites
  /\ \E p \in Pos :
       /\ arg' = p
       /\ \/ heap' = [heap EXCEPT ![objB[p]].isMine = ~@]
          \/ heap' = [heap EXCEPT ![objB[p]].revealed = ~@]
          \/ heap' = [heap EXCEPT ![objB[p]].flagged = ~@]
          \/ heap' = [heap EXCEPT ![objB[p]].adjacent = IF @ = 0 THEN 1 ELSE 0]
  /\ cnt' = cnt + 1
  /\ UNCHANGED <<board, started, gameOver, flagsLeft, hintUses, pc, ret, orig,
                 placed, objA, objB, firstCell, hintCalls, hintPubs, pageVars, hintsUsed>>

CloneNext == CloneCall \/ CloneWrite

SpecClone == CloneInit /\ [][CloneNext]_vars

\* C6: the clone equals the source cell for cell when created, and no write
\* to a field of a clone cell changes any cell of the source.
C6_CloneIndependent ==
  pc = "cloned" =>
    /\ ValueOf(heap, objA) = orig
    /\ cnt = 0 => ValueOf(heap, objB) = orig

C6_Witness ==
  /\ pc = "cloned"
  /\ cnt >= 1
  /\ ValueOf(heap, objB) # orig
  /\ MinesOf(orig) # {}


(***************************************************************************)
(* Spec: a session.  A handler runs to completion on a clone of the        *)
(* committed board and leaves a queue of state updates (setBoard(next),    *)
(* setStarted, setFlagsLeft, setGameOver, the updater of revealMines);     *)
(* the queue is then applied in order to the committed state.              *)
(***************************************************************************)
Eff(t, v, n) == [t |-> t, v |-> v, n |-> n]
SetBoard == Eff("setBoard", "", 0)
SetStarted == Eff("setStarted", "true", 0)
SetFlagsLeft(n) == Eff("setFlagsLeft", "", n)
SetLost == Eff("setGameOver", "lost", 0)
SetWon == Eff("setGameOver", "won", 0)
RevealMines == Eff("revealMines", "", 0)

\* what one handler run leaves behind: the final value of its clone `next`,
\* its update queue, its return value (for a solver: the branch that ended
\* the turn), whether it opened a mine, the cell it opened, and hintUses
Result(next, effs, r, hit, cell, hu) ==
  [next |-> next, effs |-> effs, ret |-> r, hit |-> hit, cell |-> cell, hu |-> hu]

\* the committed state after one update of the queue
applyEffect(st, next, e) ==
  CASE e.t = "setBoard"     -> [st EXCEPT !.board = next]
    [] e.t = "revealMines"  -> [st EXCEPT !.board = revealMinesOn(st.board)]
    [] e.t = "setStarted"   -> [st EXCEPT !.started = TRUE]
    [] e.t = "setFlagsLeft" -> [st EXCEPT !.flagsLeft = e.n]
    [] e.t = "setGameOver"  -> [st EXCEPT !.gameOver = e.v]

RECURSIVE applyEffects(_, _, _)
applyEffects(st, next, effs) ==
  IF effs = <<>> THEN st
  ELSE applyEffects(applyEffect(st, next, Head(effs)), next, Tail(effs))

Max(a, b) == IF a > b THEN a ELSE b

\* every unrevealed cell, flagged or not
CandidatesCovered(b) == {p \in Pos : ~b[p].revealed}

\* hidden, unflagged cells (`candidates`)
Candidates(b) == {p \in Pos : ~b[p].revealed /\ ~b[p].flagged}

\* no flagged hidden cell is ever found
FlaggedCoveredNone(b) == {}

\* flagged, unrevealed cells (`flaggedCovered`)
FlaggedCovered(b) == {p \in Pos : b[p].flagged /\ ~b[p].revealed}

\* the first-move step left out: no mine placed, started not set
ensureStartedBare(b, st, t) == {[board |-> b, effs |-> <<>>]}

\* `if (!started) { placeMines(next, mines, {r, c}); computeAdjacency(next);
\* setStarted(true) }`: the boards it can leave and the updates queued
ensureStarted(b, st, t) ==
  IF ~st THEN {[board |-> computeAdjacency(m), effs |-> <<SetStarted>>] :
                 m \in placeMines(b, MineCount, t)}
  ELSE {[board |-> b, effs |-> <<>>]}

\* the win check left out after a publish
winEffsNone(b) == <<>>

\* `if (checkWin(next)) { setGameOver("won"); revealMines(); }`
winEffs(b) == IF checkWin(b) THEN <<SetWon, RevealMines>> ELSE <<>>

\* the mine branch followed by nothing: reveal, publish, lose, reveal mines;
\* otherwise flood-fill, publish, check win
openTarget(b, t, pre, via, hu) ==
  IF b[t].isMine
  THEN Result([b EXCEPT ![t].revealed = TRUE],
              pre \o <<SetBoard, SetLost, RevealMines>>, via, TRUE, t, hu)
  ELSE LET n == floodFill(b, GridSize, t[1], t[2])
       IN Result(n, pre \o <<SetBoard>> \o winEffs(n), via, FALSE, t, hu)

\* AiBehavior.tsx easyAi, on the clone values b0 of ctx.board
easyAi(b0, st, hu) ==
  IF checkWin(b0) THEN {Result(b0, <<>>, "won-already", FALSE, NoCell, hu)}
  ELSE IF Candidates(b0) = {} THEN {Result(b0, <<>>, "none", FALSE, NoCell, hu)}
  ELSE UNION { {openTarget(s.board, t, s.effs, "random", hu) :
                  s \in ensureStarted(b0, st, t)} : t \in Candidates(b0) }


RECURSIVE addAll(_, _)
\* Set.add of every element of s, keeping insertion order
addAll(acc, s) ==
  IF s = <<>> THEN acc
  ELSE addAll(IF Head(s) \in Range(acc) THEN acc ELSE Append(acc, Head(s)), Tail(s))

RECURSIVE flatten(_)
flatten(ss) == IF ss = <<>> THEN <<>> ELSE Head(ss) \o flatten(Tail(ss))

\* `hidden`: the unrevealed, unflagged neighbours of p, in scan order
hiddenNbrs(b, p) ==
  SelectSeq(Nbrs[p], LAMBDA q : ~b[q].revealed /\ ~b[q].flagged)

\* `flagged`: the number of flagged neighbours of p
flaggedNbrs(b, p) ==
  Len(SelectSeq(Nbrs[p], LAMBDA q : b[q].flagged))

\* a revealed zero: its neighbours are safe
isZero(b, p) == b[p].revealed /\ b[p].adjacent = 0

\* Rule 1 with the flagged neighbours not subtracted
rule1NoFlags(b, p) ==
  /\ b[p].revealed /\ b[p].adjacent > 0
  /\ Len(hiddenNbrs(b, p)) = b[p].adjacent
  /\ Len(hiddenNbrs(b, p)) > 0

\* Rule 1: hidden.length === cell.adjacent - flagged && hidden.length > 0
rule1(b, p) ==
  /\ b[p].revealed /\ b[p].adjacent > 0
  /\ Len(hiddenNbrs(b, p)) = b[p].adjacent - flaggedNbrs(b, p)
  /\ Len(hiddenNbrs(b, p)) > 0

\* Rule 2: flagged === cell.adjacent && hidden.length > 0
rule2(b, p) ==
  /\ b[p].revealed /\ b[p].adjacent > 0
  /\ flaggedNbrs(b, p) = b[p].adjacent
  /\ Len(hiddenNbrs(b, p)) > 0

\* the test a scan applies to the cell it visits
scanTest(kind, b, p) ==
  CASE kind = "zero"  -> isZero(b, p)
    [] kind = "rule1" -> rule1(b, p)
    [] kind = "rule2" -> rule2(b, p)

\* the set a row-major scan builds by adding hiddenNbrs of every cell that
\* passes the test
bucket(b, kind) ==
  addAll(<<>>, flatten([i \in 1 .. GridSize * GridSize |->
                          IF scanTest(kind, b, RowMajor[i])
                          THEN hiddenNbrs(b, RowMajor[i]) ELSE <<>>]))

\* `for (... of toFlag) if (!cell.revealed && !cell.flagged) cell.flagged = true`
applyFlags(b, toFlag) ==
  [p \in Pos |-> IF p \in Range(toFlag) /\ ~b[p].revealed /\ ~b[p].flagged
                 THEN [b[p] EXCEPT !.flagged = TRUE] ELSE b[p]]

\* the remaining count published without the clamp at zero
flagsLeftEffExact(b) == SetFlagsLeft(MineCount - Cardinality(FlaggedOf(b)))

\* `placed = next.flat().filter(c => c.flagged).length;
\*  setFlagsLeft(Math.max(0, mines - placed))`
flagsLeftEff(b) == SetFlagsLeft(Max(0, MineCount - Cardinality(FlaggedOf(b))))

\* the cell openOne(bucket) acts on: the first one neither revealed nor flagged
firstLive(b, bkt) ==
  LET live == SelectSeq(bkt, LAMBDA q : ~b[q].revealed /\ ~b[q].flagged)
  IN IF live = <<>> THEN NoCell ELSE Head(live)

\* openOne(bucket) returning true, then the caller's
\* `setBoard(next); if (checkWin(next)) {...}; return`
ruleOpen(b, t, pre, via, hu) ==
  IF b[t].isMine
  THEN LET n == [b EXCEPT ![t].revealed = TRUE]
       IN Result(n, pre \o <<SetBoard, SetLost, RevealMines, SetBoard>> \o winEffs(n),
                 via, TRUE, t, hu)
  ELSE LET n == floodFill(b, GridSize, t[1], t[2])
       IN Result(n, pre \o <<SetBoard>> \o winEffs(n), via, FALSE, t, hu)

\* the tail shared by mediumAi and hardAi: random guess, then un-flag and
\* open, then the flags-only publish
guessTail(b, st, pre, didFlag, hu) ==
  IF Candidates(b) # {}
  THEN UNION { {openTarget(s.board, t, pre \o s.effs, "random", hu) :
                  s \in ensureStarted(b, st, t)} : t \in Candidates(b) }
  ELSE IF FlaggedCovered(b) # {}
  THEN { LET b2 == [b EXCEPT ![t].flagged = FALSE]
         IN openTarget(b2, t, pre \o <<flagsLeftEff(b2)>>, "unflag", hu) :
           t \in FlaggedCovered(b) }
  ELSE IF didFlag
  THEN {Result(b, pre \o <<SetBoard>> \o winEffs(b), "flags-only", FALSE, NoCell, hu)}
  ELSE {Result(b, pre, "none", FALSE, NoCell, hu)}

\* the three opens with the safe-expansion set tried first
ruleOpensZeroFirst(b1, toOpenRule, toOpenZero, pre, hu) ==
  LET t1 == firstLive(b1, bucket(b1, "rule2"))
      t2 == firstLive(b1, toOpenRule)
      t3 == firstLive(b1, toOpenZero)
  IN IF t3 # NoCell THEN {ruleOpen(b1, t3, pre, "zero", hu)}
     ELSE IF t1 # NoCell THEN {ruleOpen(b1, t1, pre, "rule2-post", hu)}
     ELSE IF t2 # NoCell THEN {ruleOpen(b1, t2, pre, "rule2", hu)}
     ELSE {}

\* the three rule-based opens, in order; {} when none applies
ruleOpens(b1, toOpenRule, toOpenZero, pre, hu) ==
  LET t1 == firstLive(b1, bucket(b1, "rule2"))
      t2 == firstLive(b1, toOpenRule)
      t3 == firstLive(b1, toOpenZero)
  IN IF t1 # NoCell THEN {ruleOpen(b1, t1, pre, "rule2-post", hu)}
     ELSE IF t2 # NoCell THEN {ruleOpen(b1, t2, pre, "rule2", hu)}
     ELSE IF t3 # NoCell THEN {ruleOpen(b1, t3, pre, "zero", hu)}
     ELSE {}

\* mediumAi's `toFlag` once its rule scan has run
mediumToFlag(b) == bucket(b, "rule1")

\* AiBehavior.tsx mediumAi, on the clone values b0 of ctx.board
mediumAi(b0, st, hu) ==
  LET toOpenZero == bucket(b0, "zero")
      toFlag     == mediumToFlag(b0)
      toOpenRule == bucket(b0, "rule2")
      b1         == applyFlags(b0, toFlag)
      didFlag    == b1 # b0
      pre        == IF toFlag # <<>> THEN <<flagsLeftEff(b1)>> ELSE <<>>
      opens      == ruleOpens(b1, toOpenRule, toOpenZero, pre, hu)
  IN IF opens # {} THEN opens ELSE guessTail(b1, st, pre, didFlag, hu)

\* the flanks' neighbours not removed: every hidden, unflagged neighbour of the
\* centre counts
exclusivesOfCentre(b, flankA, centre, flankB) ==
  SelectSeq(Nbrs[centre], LAMBDA q : ~b[q].revealed /\ ~b[q].flagged)

\* the hidden, unflagged cells adjacent to the centre of a run but to neither
\* flank (`exclusives`); the pair is added to toFlag when there are two
exclusives(b, flankA, centre, flankB) ==
  LET aN == Range(Nbrs[flankA])
      bN == Range(Nbrs[flankB])
      centreN == SelectSeq(Nbrs[centre], LAMBDA q : q \notin aN /\ q \notin bN)
  IN SelectSeq(centreN, LAMBDA q : ~b[q].revealed /\ ~b[q].flagged)

is121(b, flankA, centre, flankB) ==
  /\ b[flankA].revealed /\ b[centre].revealed /\ b[flankB].revealed
  /\ b[flankA].adjacent = 1 /\ b[centre].adjacent = 2 /\ b[flankB].adjacent = 1

\* the cells the horizontal, then the vertical 1-2-1 scan adds to toFlag
patternFlags(b) ==
  LET horiz == [i \in 1 .. GridSize * GridSize |->
                  LET p == RowMajor[i]
                      l == <<p[1], p[2] - 1>>
                      r == <<p[1], p[2] + 1>>
                  IN IF p[2] >= 1 /\ p[2] < GridSize - 1 /\ is121(b, l, p, r)
                        /\ Len(exclusives(b, l, p, r)) = 2
                     THEN exclusives(b, l, p, r) ELSE <<>>]
      vert  == [i \in 1 .. GridSize * GridSize |->
                  LET p == RowMajor[i]
                      u == <<p[1] - 1, p[2]>>
                      d == <<p[1] + 1, p[2]>>
                  IN IF p[1] >= 1 /\ p[1] < GridSize - 1 /\ is121(b, u, p, d)
                        /\ Len(exclusives(b, u, p, d)) = 2
                     THEN exclusives(b, u, p, d) ELSE <<>>]
  IN flatten(horiz) \o flatten(vert)

\* hardAi's `toFlag` once its rule scan and both 1-2-1 scans have run
hardToFlag(b) == addAll(bucket(b, "rule1"), patternFlags(b))

\* hardAi with the ground-truth fallback left out
hardAiBlind(b0, st, hu) ==
  IF ~st /\ Candidates(b0) # {}
  THEN UNION { {openTarget(s.board, t, s.effs, "first", hu) :
                  s \in ensureStarted(b0, FALSE, t)} : t \in Candidates(b0) }
  ELSE
  LET toOpenZero == bucket(b0, "zero")
      toFlag     == hardToFlag(b0)
      toOpenRule == bucket(b0, "rule2")
      b1         == applyFlags(b0, toFlag)
      didFlag    == b1 # b0
      pre        == IF toFlag # <<>> THEN <<flagsLeftEff(b1)>> ELSE <<>>
      opens      == ruleOpens(b1, toOpenRule, toOpenZero, pre, hu)
  IN IF opens # {} THEN opens ELSE guessTail(b1, st, pre, didFlag, hu)

\* AiBehavior.tsx hardAi, on the clone values b0 of ctx.board
hardAi(b0, st, hu) ==
  IF ~st /\ Candidates(b0) # {}
  THEN UNION { {openTarget(s.board, t, s.effs, "first", hu) :
                  s \in ensureStarted(b0, FALSE, t)} : t \in Candidates(b0) }
  ELSE
  LET toOpenZero == bucket(b0, "zero")
      toFlag     == hardToFlag(b0)
      toOpenRule == bucket(b0, "rule2")
      b1         == applyFlags(b0, toFlag)
      didFlag    == b1 # b0
      pre        == IF toFlag # <<>> THEN <<flagsLeftEff(b1)>> ELSE <<>>
      opens      == ruleOpens(b1, toOpenRule, toOpenZero, pre, hu)
      safe       == {p \in Candidates(b1) : b1[p].isMine = FALSE}
  IN IF opens # {} THEN opens
     ELSE IF ~st /\ Candidates(b1) # {}
     THEN UNION { {openTarget(s.board, t, pre \o s.effs, "cheat-first", hu) :
                     s \in ensureStarted(b1, FALSE, t)} : t \in Candidates(b1) }
     ELSE IF st /\ safe # {}
     THEN { LET n == floodFill(b1, GridSize, t[1], t[2])
            IN Result(n, pre \o <<SetBoard>> \o winEffs(n), "cheat", FALSE, t, hu) :
              t \in safe }
     ELSE guessTail(b1, st, pre, didFlag, hu)

\* the filter left out: every candidate passes
safeCellsAll(b) == Candidates(b)

\* `safe`: the candidates that ground truth confirms are not mines
safeCells(b) == {p \in Candidates(b) : ~b[p].isMine}

\* the early return of hint with the win test left out
hintDoneCapOnly(b0, hu) == hu >= MAX_HINTS

\* hint's two early returns of "done": counter exhausted, or board already won
hintDone(b0, hu) == hu >= MAX_HINTS \/ checkWin(b0)

\* hint without the `hintUses >= MAX_HINTS` return
hintUncapped(b0, st, hu) ==
  IF checkWin(b0) THEN {Result(b0, <<>>, "done", FALSE, NoCell, hu)}
  ELSE IF Candidates(b0) = {} THEN {Result(b0, <<>>, "none", FALSE, NoCell, hu)}
  ELSE IF ~st
  THEN UNION { { Result(floodFill(s.board, GridSize, t[1], t[2]),
                        s.effs \o <<SetBoard>>, "good", FALSE, t, hu + 1) :
                   s \in ensureStarted(b0, FALSE, t)} : t \in Candidates(b0) }
  ELSE LET safe == safeCells(b0)
       IN IF safe = {} THEN {Result(b0, <<>>, "none", FALSE, NoCell, hu)}
          ELSE { LET n == floodFill(b0, GridSize, t[1], t[2])
                 IN Result(n, <<SetBoard>> \o winEffs(n), "undefined", FALSE, t,
                           IF checkWin(n) THEN 0 ELSE hu + 1) : t \in safe }

\* AiBehavior.tsx hint, on ctx.board values b0 with the module counter hu
hint(b0, st, hu) ==
  IF hintDone(b0, hu) THEN {Result(b0, <<>>, "done", FALSE, NoCell, hu)}
  ELSE IF Candidates(b0) = {} THEN {Result(b0, <<>>, "none", FALSE, NoCell, hu)}
  ELSE IF ~st
  THEN UNION { { Result(floodFill(s.board, GridSize, t[1], t[2]),
                        s.effs \o <<SetBoard>>, "good", FALSE, t, hu + 1) :
                   s \in ensureStarted(b0, FALSE, t)} : t \in Candidates(b0) }
  ELSE LET safe == safeCells(b0)
       IN IF safe = {} THEN {Result(b0, <<>>, "none", FALSE, NoCell, hu)}
          ELSE { LET n == floodFill(b0, GridSize, t[1], t[2])
                 IN Result(n, <<SetBoard>> \o winEffs(n), "undefined", FALSE, t,
                           IF checkWin(n) THEN 0 ELSE hu + 1) : t \in safe }


\* page.tsx revealCell(r, c) past its gameOver guard, on the clone values b0
revealCell(b0, st, t, hu) ==
  IF b0[t].revealed \/ b0[t].flagged
  THEN {Result(b0, <<>>, "ignored", FALSE, NoCell, hu)}
  ELSE { LET pre == IF ~st THEN <<SetBoard>> \o s.effs ELSE <<>>
         IN IF s.board[t].isMine
            THEN Result(s.board, pre \o <<SetLost, RevealMines>>, "mine", TRUE, t, hu)
            ELSE LET n == floodFill(s.board, GridSize, t[1], t[2])
                 IN Result(n, pre \o <<SetBoard>> \o winEffs(n), "open", FALSE, t, hu) :
           s \in ensureStarted(b0, st, t) }

\* toggleFlag without its `if (cell.revealed) return`
toggleFlagRevealed(b0, t, hu) ==
  LET n == [b0 EXCEPT ![t].flagged = ~b0[t].flagged]
  IN {Result(n, <<SetFlagsLeft(MineCount - Cardinality(FlaggedOf(n))), SetBoard>>
                  \o winEffs(n), "toggled", FALSE, NoCell, hu)}

\* page.tsx toggleFlag(e, r, c) past its gameOver guard
toggleFlag(b0, t, hu) ==
  IF b0[t].revealed THEN {Result(b0, <<>>, "ignored", FALSE, NoCell, hu)}
  ELSE LET n == [b0 EXCEPT ![t].flagged = ~b0[t].flagged]
       IN {Result(n, <<SetFlagsLeft(MineCount - Cardinality(FlaggedOf(n))), SetBoard>>
                       \o winEffs(n), "toggled", FALSE, NoCell, hu)}

\* the cell objects of the committed board as a handler sees them through
\* ctx.board (or `board` in page.tsx), and the array that refers to them
ctxObj == [p \in Pos |-> Index(p)]
ctxHeap(b) == [i \in 1 .. GridSize * GridSize |-> b[RowMajor[i]]]

CountSetBoard(effs) == Len(SelectSeq(effs, LAMBDA e : e.t = "setBoard"))

\* the values ctx.board holds once the handler has written its final `next`
\* through the references of its clone
ctxAfter(cl, t) ==
  [p \in Pos |-> IF \E q \in Pos : cl.board[q] = ctxObj[p]
                 THEN t.next[CHOOSE q \in Pos : cl.board[q] = ctxObj[p]]
                 ELSE board[p]]

\* the committed state a handler run leaves once its update queue is applied
\* in order
after(t) ==
  applyEffects([board |-> board, started |-> started,
                gameOver |-> gameOver, flagsLeft |-> flagsLeft], t.next, t.effs)

CommitState(t) ==
  LET st == after(t)
  IN /\ board' = st.board
     /\ started' = st.started
     /\ gameOver' = st.gameOver
     /\ flagsLeft' = st.flagsLeft
     /\ hintUses' = t.hu
     /\ firstCell' = IF RevealedOf(board) = {} /\ RevealedOf(st.board) # {}
                     THEN t.cell ELSE firstCell
     /\ UNCHANGED <<pc, ret, orig, arg, cnt, placed, heap, objA, objB>>

\* a handler other than hint leaves the hint bookkeeping alone
Commit(t) ==
  CommitState(t) /\ UNCHANGED <<hintCalls, hintPubs, pageVars, hintsUsed>>

Min(a, b) == IF a < b THEN a ELSE b

\* hint's win branch calls resetHints(); a new count starts there
CommitHintState(t) ==
  LET won == \E i \in 1 .. Len(t.effs) : t.effs[i] = SetWon
      pub == CountSetBoard(t.effs) > 0
  IN /\ CommitState(t)
     /\ hintCalls' = IF won THEN 0 ELSE Min(hintCalls + 1, MaxHintCalls)
     /\ hintPubs' = IF won THEN 0
                    ELSE IF pub THEN Min(hintPubs + 1, MaxHintCalls) ELSE hintPubs
     /\ UNCHANGED pageVars

\* a call of hint(ctx) that does not go through the page's useHint
CommitHint(t) == CommitHintState(t) /\ UNCHANGED hintsUsed

InSession == pc \in {"session", "sweep", "page", "auto", "hard", "hints"}

SessionInit(mode) ==
  /\ Idle
  /\ pc = mode
  /\ board = createEmptyBoard(GridSize, GridSize)
  /\ orig = board
  /\ arg = NoCell
  /\ cnt = 0
  /\ placed = 0

\* the handlers run whether or not a terminal state is set
TurnAfterEnd ==
  /\ InSession
  /\ pc = "sweep" =>
       /\ ~started
       /\ IF RevealedOf(board) = {}
          THEN Candidates(board) = {}
          ELSE Cardinality(RevealedOf(board)) = 1

\* a handler other than a flag click runs while the game is live; in a sweep
\* the player flags every cell of the fresh board, lets the solvers take
\* turns until one cell is open, then removes flags and makes a first move
Turn ==
  /\ InSession /\ gameOver = "null"
  /\ pc = "sweep" =>
       /\ ~started
       /\ IF RevealedOf(board) = {}
          THEN Candidates(board) = {}
          ELSE Cardinality(RevealedOf(board)) = 1

\* the useEffect interval and useHint call the core only while !gameOver
EasyAi ==
  /\ Turn
  /\ LET cl == cloneBoard(ctxHeap(board), ctxObj)
     IN \E t \in easyAi(ValueOf(cl.heap, cl.board), started, hintUses) :
          Commit(t)

MediumAi ==
  /\ Turn
  /\ LET cl == cloneBoard(ctxHeap(board), ctxObj)
     IN \E t \in mediumAi(ValueOf(cl.heap, cl.board), started, hintUses) :
          Commit(t)

HardAi ==
  /\ Turn
  /\ LET cl == cloneBoard(ctxHeap(board), ctxObj)
     IN \E t \in hardAi(ValueOf(cl.heap, cl.board), started, hintUses) :
          Commit(t)

Hint ==
  /\ Turn
  /\ LET cl == cloneBoard(ctxHeap(board), ctxObj)
     IN \E t \in hint(ValueOf(cl.heap, cl.board), started, hintUses) :
          CommitHint(t)

RevealCell ==
  /\ Turn
  /\ LET cl == cloneBoard(ctxHeap(board), ctxObj)
     IN \E p \in Pos :
          \E t \in revealCell(ValueOf(cl.heap, cl.board), started, p, hintUses) :
            Commit(t)

\* the flag clicks the player is given: in a session, a flag may be added
\* while fewer than MaxPlayerFlags stand and removed at any time; in a sweep,
\* flags are added in row-major order before anything is revealed and
\* removed in the reverse order
FlagClickAllowed(p) ==
  IF pc # "sweep"
  THEN board[p].flagged \/ Cardinality(FlaggedOf(board)) < MaxPlayerFlags
  ELSE IF board[p].flagged
       THEN \A q \in FlaggedOf(board) : Index(q) <= Index(p)
       ELSE RevealedOf(board) = {} /\ \A q \in Candidates(board) : Index(p) <= Index(q)

ToggleFlag ==
  /\ InSession /\ gameOver = "null"
  /\ LET cl == cloneBoard(ctxHeap(board), ctxObj)
     IN \E p \in Pos :
          /\ FlagClickAllowed(p)
          /\ \E t \in toggleFlag(ValueOf(cl.heap, cl.board), p, hintUses) :
               Commit(t)

\* what page.tsx reset() writes; it also calls resetHints()
ResetState ==
  /\ board' = createEmptyBoard(GridSize, GridSize)
  /\ started' = FALSE
  /\ gameOver' = "null"
  /\ flagsLeft' = MineCount
  /\ hintUses' = 0
  /\ firstCell' = NoCell
  /\ hintCalls' = 0
  /\ hintPubs' = 0
  /\ hintsUsed' = 0
  /\ UNCHANGED <<pc, ret, orig, arg, cnt, placed, heap, objA, objB>>

\* the Reset button and the modal's close: reset() leaves the mode state
Reset == InSession /\ ResetState /\ UNCHANGED pageVars

Next == EasyAi \/ MediumAi \/ HardAi \/ Hint \/ RevealCell \/ ToggleFlag \/ Reset

Init == SessionInit("session")
Spec == Init /\ [][Next]_vars

SweepInit == SessionInit("sweep")
SpecSweep == SweepInit /\ [][Next]_vars

\* SpecHard: a fresh session left to hardAi alone, each call given the
\* committed state
HardInit == SessionInit("hard")

SpecHard == HardInit /\ [][HardAi]_vars

\* the limit useHint and the Hint button test hintsUsed against
PageHintLimit == 3

\* `if (gameOver || hintsUsed >= 3) return;`
useHintGuard == gameOver = "null" /\ hintsUsed < PageHintLimit

\* page.tsx useHint(): hint(ctx), then setHintsUsed(hintsUsed + 1)
UseHint ==
  /\ pc = "hints"
  /\ useHintGuard
  /\ LET cl == cloneBoard(ctxHeap(board), ctxObj)
     IN \E t \in hint(ValueOf(cl.heap, cl.board), started, hintUses) :
          /\ CommitHintState(t)
          /\ hintsUsed' = hintsUsed + 1

\* SpecHints: the player alone, with the Hint button
HintsNext == UseHint \/ RevealCell \/ ToggleFlag \/ Reset
HintsInit == SessionInit("hints")
SpecHints == HintsInit /\ [][HintsNext]_vars

SessionTypeOK ==
  InSession =>
    /\ gameOver \in {"null", "lost", "won"}
    /\ hintUses \in 0 .. MAX_HINTS
    /\ started \in BOOLEAN


(***************************************************************************)
(* SpecPage: the page with its AI modes.  The interval callback of the AI  *)
(* effect, the player's clicks, the mode and difficulty selectors and      *)
(* reset act on the committed state.  SpecAuto: an automatic-mode session  *)
(* left to the interval callback alone, which fires again and again.       *)
(***************************************************************************)
Modes == {"off", "interactive", "automatic"}
Difficulties == {"easy", "medium", "hard"}

\* `if (!ctx) { console.warn(...); return; }`: a solver called without ctx
noCtx(b0, hu) == {Result(b0, <<>>, "no-ctx", FALSE, NoCell, hu)}

\* the solver call the interval callback makes for aiDifficulty: easyAi(ctx),
\* mediumAi(ctx), or hardAi() with no argument
aiMove(diff, b0, st, hu) ==
  CASE diff = "easy"   -> easyAi(b0, st, hu)
    [] diff = "medium" -> mediumAi(b0, st, hu)
    [] diff = "hard"   -> noCtx(b0, hu)

\* the condition under which the AI effect installs its interval
aiActive ==
  /\ aiMode = "automatic" \/ (aiMode = "interactive" /\ ~isUserTurn)
  /\ gameOver = "null"

\* a handler's queue committed together with its setIsUserTurn call, if any
CommitPage(t, turn) ==
  /\ CommitState(t)
  /\ isUserTurn' = turn
  /\ UNCHANGED <<hintCalls, hintPubs, aiMode, aiDifficulty, hintsUsed>>

\* one firing of the interval callback
Tick ==
  /\ pc \in {"page", "auto"}
  /\ aiActive
  /\ LET cl == cloneBoard(ctxHeap(board), ctxObj)
     IN \E t \in aiMove(aiDifficulty, ValueOf(cl.heap, cl.board), started, hintUses) :
          CommitPage(t, IF aiMode = "interactive" THEN TRUE ELSE isUserTurn)

\* a left click: revealCell(r, c), which hands the turn to the AI in
\* interactive mode unless it returned early (ignored click, mine)
PageRevealCell ==
  /\ pc = "page" /\ gameOver = "null"
  /\ LET cl == cloneBoard(ctxHeap(board), ctxObj)
     IN \E p \in Pos :
          \E t \in revealCell(ValueOf(cl.heap, cl.board), started, p, hintUses) :
            CommitPage(t, IF aiMode = "interactive" /\ t.ret = "open"
                          THEN FALSE ELSE isUserTurn)

\* the mode selector: setAiMode, then the effect on [aiMode, aiDifficulty]
\* calls reset() and setIsUserTurn(true)
SetAiMode ==
  /\ pc = "page"
  /\ \E m \in Modes \ {aiMode} : aiMode' = m
  /\ ResetState
  /\ isUserTurn' = TRUE
  /\ UNCHANGED aiDifficulty

\* the difficulty selector, with the same effect
SetAiDifficulty ==
  /\ pc = "page"
  /\ \E d \in Difficulties \ {aiDifficulty} : aiDifficulty' = d
  /\ ResetState
  /\ isUserTurn' = TRUE
  /\ UNCHANGED aiMode

PageNext ==
  Tick \/ PageRevealCell \/ ToggleFlag \/ Reset \/ SetAiMode \/ SetAiDifficulty

PageInit == SessionInit("page")
SpecPage == PageInit /\ [][PageNext]_vars

\* automatic mode selected, any difficulty, on the fresh board the selectors
\* leave
AutoInit ==
  /\ started = FALSE /\ gameOver = "null" /\ flagsLeft = MineCount /\ hintUses = 0
  /\ ret = ""
  /\ heap = <<>> /\ objA = <<>> /\ objB = <<>> /\ firstCell = NoCell
  /\ hintCalls = 0 /\ hintPubs = 0
  /\ aiMode = "automatic" /\ isUserTurn = TRUE /\ aiDifficulty \in Difficulties
  /\ hintsUsed = 0
  /\ pc = "auto"
  /\ board = createEmptyBoard(GridSize, GridSize)
  /\ orig = board
  /\ arg = NoCell
  /\ cnt = 0
  /\ placed = 0

\* ENABLED <<Tick>>_vars written out: the interval is installed and some
\* result of the solver call changes the committed state
TickEnabled ==
  /\ pc \in {"page", "auto"}
  /\ aiActive
  /\ \/ aiMode = "interactive"
     \/ LET cl == cloneBoard(ctxHeap(board), ctxObj)
        IN \E t \in aiMove(aiDifficulty, ValueOf(cl.heap, cl.board), started, hintUses) :
             \/ after(t) # [board |-> board, started |-> started,
                            gameOver |-> gameOver, flagsLeft |-> flagsLeft]
             \/ t.hu # hintUses

\* the interval keeps firing while the effect's condition holds: weak
\* fairness of Tick, WF_vars(Tick), with its ENABLED written as TickEnabled
TickFair == []<>(~TickEnabled) \/ []<><<Tick>>_vars

SpecAuto == AutoInit /\ [][Tick]_vars /\ TickFair


(***************************************************************************)
(* Session claims.  A claim about what an invocation does is stated over   *)
(* every result the handler can produce in a reachable state; after(t) is  *)
(* the committed state that result leaves.                                 *)
(***************************************************************************)
\* the clone a handler makes of the committed board, and its cell values
ctxClone == cloneBoard(ctxHeap(board), ctxObj)
ctxNext0 == ValueOf(ctxClone.heap, ctxClone.board)

SolverTurns ==
  easyAi(ctxNext0, started, hintUses) \cup mediumAi(ctxNext0, started, hintUses)
    \cup hardAi(ctxNext0, started, hintUses)

Invocations == SolverTurns \cup hint(ctxNext0, started, hintUses)

Running == InSession /\ gameOver = "null"

\* C2: the committed board holds no mine while no cell is revealed, and
\* exactly MineCount mines in every state in which some cell is revealed.
C2_MinesPlacedWithFirstReveal ==
  InSession =>
    /\ RevealedOf(board) = {} => MinesOf(board) = {}
    /\ RevealedOf(board) # {} => Cardinality(MinesOf(board)) = MineCount

\* C3: the cell whose opening revealed the session's first cell, and its
\* neighbours, are never mines.
C3_FirstClickSafe ==
  InSession /\ firstCell # NoCell =>
    \A p \in MinesOf(board) : Chebyshev(p, firstCell) > 1

\* C8: no solver or hint invocation changes a cell of the array passed as
\* ctx.board, and an invocation that queues neither setBoard nor revealMines
\* leaves the committed board as it was.
C8_CopyOnWrite ==
  Running =>
    \A t \in Invocations :
      /\ ctxAfter(ctxClone, t) = board
      /\ (\A i \in 1 .. Len(t.effs) : t.effs[i].t \notin {"setBoard", "revealMines"})
           => after(t).board = board

\* a mine-hit turn and a no-move call, both from the same committed board
C8_Witness ==
  /\ Running
  /\ \E t \in SolverTurns : t.hit /\ t.next # board /\ after(t).board # board
  /\ \E t \in Invocations : t.effs = <<>> /\ t.ret = "none"

\* C9: every solver or hint invocation calls setBoard at most once.
C9_AtMostOnePublish ==
  Running => \A t \in Invocations : CountSetBoard(t.effs) <= 1

\* C10: a solver turn that opens a mine sets 'lost' and leaves every mine of
\* the committed board revealed.
C10_MineOpenLosesAndRevealsAll ==
  Running =>
    \A t \in SolverTurns :
      t.hit => /\ after(t).gameOver = "lost"
               /\ MinesOf(after(t).board) \subseteq RevealedOf(after(t).board)

\* C11: after any easyAi, mediumAi or hardAi turn whose published board
\* satisfies the win predicate, gameOver is 'won'.
C11_WinIsRecorded ==
  Running =>
    \A t \in SolverTurns :
      CountSetBoard(t.effs) > 0 /\ checkWin(t.next) => after(t).gameOver = "won"

\* a live state from which some solver turn publishes a winning board
C11_Witness ==
  /\ Running
  /\ \E t \in SolverTurns :
       CountSetBoard(t.effs) > 0 /\ checkWin(t.next) /\ after(t).gameOver = "won"

\* C12: easyAi queues no update when the committed board already satisfies the
\* win predicate or has no hidden unflagged cell; otherwise it opens one
\* hidden unflagged cell and publishes once.
C12_EasyAiOpensOneOrNothing ==
  Running =>
    \A t \in easyAi(ctxNext0, started, hintUses) :
      IF checkWin(board) \/ ~(\E p \in Pos : ~board[p].revealed /\ ~board[p].flagged)
      THEN t.effs = <<>> /\ after(t).board = board
      ELSE /\ t.cell \in Pos
           /\ ~board[t.cell].revealed /\ ~board[t.cell].flagged
           /\ t.next[t.cell].revealed
           /\ CountSetBoard(t.effs) = 1

\* a live board that already satisfies the win predicate (hint's first move
\* published it without a win check) and still has a hidden unflagged cell,
\* on which easyAi does nothing
C12_Witness ==
  /\ Running
  /\ checkWin(board)
  /\ \E p \in Pos : ~board[p].revealed /\ ~board[p].flagged
  /\ \E t \in easyAi(ctxNext0, started, hintUses) : t.effs = <<>>

(***************************************************************************)
(* The deduction sets of the solvers, stated on a board as sets of cells.  *)
(***************************************************************************)
hiddenAround(b, p) ==
  {q \in Pos : Chebyshev(p, q) = 1 /\ ~b[q].revealed /\ ~b[q].flagged}

flagsAround(b, p) ==
  Cardinality({q \in Pos : Chebyshev(p, q) = 1 /\ b[q].flagged})

\* Rule A: the hidden neighbours of a number that are all mines
RuleASet(b) ==
  UNION {hiddenAround(b, p) :
           p \in {x \in Pos : /\ b[x].revealed /\ b[x].adjacent > 0
                             /\ hiddenAround(b, x) # {}
                             /\ Cardinality(hiddenAround(b, x))
                                  = b[x].adjacent - flagsAround(b, x)}}

\* Rule B: the hidden neighbours of a number whose mines are all flagged
RuleBSet(b) ==
  UNION {hiddenAround(b, p) :
           p \in {x \in Pos : /\ b[x].revealed /\ b[x].adjacent > 0
                             /\ flagsAround(b, x) = b[x].adjacent}}

\* the hidden unflagged neighbours of revealed zero-adjacency cells
SafeExpansion(b) ==
  UNION {hiddenAround(b, p) : p \in {x \in Pos : b[x].revealed /\ b[x].adjacent = 0}}

WithFlagsOn(b, S) ==
  [p \in Pos |-> IF p \in S /\ ~b[p].revealed THEN [b[p] EXCEPT !.flagged = TRUE]
                 ELSE b[p]]

Live(b, S) == {q \in S : ~b[q].revealed /\ ~b[q].flagged}

\* the source mediumAi must take its open from on board b, as the set of cells
\* it may open
mediumSource(b) ==
  LET b1 == WithFlagsOn(b, RuleASet(b))
      p1 == Live(b1, RuleBSet(b1))
      p2 == Live(b1, RuleBSet(b))
      p3 == Live(b1, SafeExpansion(b))
      p4 == Live(b1, Pos)
  IN IF p1 # {} THEN p1
     ELSE IF p2 # {} THEN p2
     ELSE IF p3 # {} THEN p3
     ELSE IF p4 # {} THEN p4
     ELSE {q \in Pos : b1[q].flagged /\ ~b1[q].revealed}

\* C13: mediumAi opens exactly one cell, taken from the first non-empty source
\* in the order post-flag Rule B, original Rule B, safe expansion, random
\* hidden unflagged cell (mines placed around it first when unstarted),
\* flagged hidden cell that it un-flags.
C13_MediumPriorityOrder ==
  Running =>
    \A t \in mediumAi(ctxNext0, started, hintUses) :
      /\ t.cell \in mediumSource(board)
      /\ t.next[t.cell].revealed /\ ~t.next[t.cell].flagged
      /\ CountSetBoard(t.effs) >= 1
      /\ (t.ret = "random" /\ ~started) =>
           /\ Cardinality(MinesOf(t.next)) = MineCount
           /\ \A m \in MinesOf(t.next) : Chebyshev(m, t.cell) > 1

\* a live board on which a Rule-B cell and a different safe-expansion cell are
\* both open to mediumAi, which takes the Rule-B one
C13_Witness ==
  /\ Running
  /\ LET b1 == WithFlagsOn(board, RuleASet(board))
     IN /\ Live(b1, RuleBSet(b1)) # {}
        /\ Live(b1, SafeExpansion(board)) \ Live(b1, RuleBSet(b1)) # {}
  /\ \E t \in mediumAi(ctxNext0, started, hintUses) : t.ret = "rule2-post"

\* C14: every mediumAi invocation on a board with an unrevealed cell publishes
\* a board on which some previously unrevealed cell is revealed.
C14_MediumAlwaysReveals ==
  Running /\ (\E p \in Pos : ~board[p].revealed) =>
    \A t \in mediumAi(ctxNext0, started, hintUses) :
      /\ CountSetBoard(t.effs) >= 1
      /\ \E p \in Pos : ~board[p].revealed /\ t.next[p].revealed
      /\ \E p \in Pos : ~board[p].revealed /\ after(t).board[p].revealed

\* a live board whose hidden cells are all flagged: the turn un-flags one
C14_Witness ==
  /\ Running
  /\ RevealedOf(board) # {}
  /\ \A p \in Pos : ~board[p].revealed => board[p].flagged
  /\ \E t \in mediumAi(ctxNext0, started, hintUses) :
       t.ret = "unflag" /\ \E p \in Pos : ~board[p].revealed /\ t.next[p].revealed

\* C15: hardAi on an unstarted session with a hidden unflagged cell places no
\* flag; it places MineCount mines outside the chosen cell's 3x3 zone, computes
\* adjacency, sets started, flood-reveals the chosen cell, publishes once, sets
\* 'won' if the win predicate holds and never sets 'lost'.
C15_HardFirstMove ==
  Running /\ ~started /\ (\E p \in Pos : ~board[p].revealed /\ ~board[p].flagged) =>
    \A t \in hardAi(ctxNext0, started, hintUses) :
      /\ t.ret = "first"
      /\ FlaggedOf(t.next) = FlaggedOf(board)
      /\ \A i \in 1 .. Len(t.effs) : t.effs[i].t # "setFlagsLeft"
      /\ ~board[t.cell].revealed /\ ~board[t.cell].flagged
      /\ Cardinality(MinesOf(t.next)) = MineCount
      /\ \A m \in MinesOf(t.next) : Chebyshev(m, t.cell) > 1
      /\ \A p \in Pos :
           t.next[p].adjacent =
             IF t.next[p].isMine THEN -1
             ELSE Cardinality({q \in MinesOf(t.next) : Chebyshev(p, q) = 1})
      /\ t.next[t.cell].revealed
      /\ after(t).started
      /\ CountSetBoard(t.effs) = 1
      /\ checkWin(t.next) => after(t).gameOver = "won"
      /\ after(t).gameOver # "lost"

\* an unstarted board carrying a player flag, on which hardAi makes the first
\* move
C15_Witness ==
  /\ Running /\ ~started
  /\ FlaggedOf(board) # {}
  /\ \E t \in hardAi(ctxNext0, started, hintUses) :
       t.ret = "first" /\ Cardinality(RevealedOf(t.next)) > 1

\* The cells adjacent to the centre of an axis-aligned run but to neither
\* flank are the two flank cells themselves, so on a 1-2-1 run, whose flanks
\* are revealed, `exclusives` is empty and the pattern scan adds no flag.
PatternAddsNoFlag ==
  InSession =>
    /\ patternFlags(board) = <<>>
    /\ \A p \in Pos :
         /\ (p[2] >= 1 /\ p[2] < GridSize - 1) =>
              {q \in Pos : /\ Chebyshev(q, p) = 1
                           /\ Chebyshev(q, <<p[1], p[2] - 1>>) # 1
                           /\ Chebyshev(q, <<p[1], p[2] + 1>>) # 1}
                = {<<p[1], p[2] - 1>>, <<p[1], p[2] + 1>>}
         /\ (p[1] >= 1 /\ p[1] < GridSize - 1) =>
              {q \in Pos : /\ Chebyshev(q, p) = 1
                           /\ Chebyshev(q, <<p[1] - 1, p[2]>>) # 1
                           /\ Chebyshev(q, <<p[1] + 1, p[2]>>) # 1}
                = {<<p[1] - 1, p[2]>>, <<p[1] + 1, p[2]>>}

\* C17 as stated: in a started session hardAi never opens a mine on a turn at
\* whose start some hidden unflagged non-mine cell exists.
C17_HardNeverOpensMine ==
  Running /\ started
    /\ (\E p \in Pos : ~board[p].revealed /\ ~board[p].flagged /\ ~board[p].isMine) =>
    \A t \in hardAi(ctxNext0, started, hintUses) : ~t.hit

\* C17 amended: in a started session with no mine revealed, a hardAi turn at
\* whose start some hidden unflagged non-mine cell exists opens a mine only
\* through a rule-selected cell (post-flag Rule B, Rule B, safe expansion);
\* when those yield no open, the cell it opens is not a mine.
C17_HardFallbackNeverOpensMine ==
  Running /\ started /\ MinesOf(board) \cap RevealedOf(board) = {}
    /\ (\E p \in Pos : ~board[p].revealed /\ ~board[p].flagged /\ ~board[p].isMine) =>
    \A t \in hardAi(ctxNext0, started, hintUses) :
      t.ret \notin {"rule2-post", "rule2", "zero"} =>
        /\ ~t.hit
        /\ t.ret = "cheat"
        /\ ~board[t.cell].isMine /\ ~board[t.cell].revealed /\ ~board[t.cell].flagged

\* a started board with a hidden unflagged mine and a hidden unflagged safe
\* cell on which no rule opens anything: the fallback opens a safe cell
C17_Witness ==
  /\ Running /\ started
  /\ \E p \in Pos : ~board[p].revealed /\ ~board[p].flagged /\ board[p].isMine
  /\ \E t \in hardAi(ctxNext0, started, hintUses) :
       t.ret = "cheat" /\ ~t.hit /\ ~board[t.cell].isMine

\* C18: the hint counter stays within 0..MAX_HINTS, and between two resets
\* (new session, or a win reached by a hint) at most MAX_HINTS hint calls
\* publish a board.
C18_HintCounterCapped ==
  InSession =>
    /\ hintUses \in 0 .. MAX_HINTS
    /\ hintPubs <= MAX_HINTS
    /\ Running =>
         \A t \in hint(ctxNext0, started, hintUses) :
           /\ t.hu \in 0 .. MAX_HINTS
           /\ CountSetBoard(t.effs) > 0 => hintPubs < MAX_HINTS

\* three hints have published since the last reset and the game is still live
C18_Witness ==
  /\ Running
  /\ hintPubs = MAX_HINTS /\ hintUses = MAX_HINTS
  /\ \E p \in Pos : ~board[p].revealed /\ ~board[p].flagged /\ ~board[p].isMine

\* C19 as stated: the 4th hint call with no reset in between returns 'done' and
\* changes nothing, whatever the first three calls returned.
C19_FourthHintDone ==
  Running /\ hintCalls = MAX_HINTS =>
    \A t \in hint(ctxNext0, started, hintUses) :
      t.ret = "done" /\ t.effs = <<>> /\ after(t).board = board

\* C19 amended: the hint call that follows three publishing hint calls with no
\* reset in between returns 'done', queues no update and leaves the counter.
C19_HintAfterThreePublishesDone ==
  Running /\ hintPubs = MAX_HINTS =>
    \A t \in hint(ctxNext0, started, hintUses) :
      /\ t.ret = "done" /\ t.effs = <<>> /\ after(t).board = board
      /\ t.hu = hintUses

\* the 4th call in a row, after three that published, on a board where a safe
\* hidden cell is still there to reveal
C19_Witness ==
  /\ Running
  /\ hintCalls = MAX_HINTS /\ hintPubs = MAX_HINTS
  /\ \E p \in Pos : ~board[p].revealed /\ ~board[p].flagged /\ ~board[p].isMine
  /\ \E t \in hint(ctxNext0, started, hintUses) : t.ret = "done"

C21_HintPublishReturnsGood ==
  Running =>
    \A t \in hint(ctxNext0, started, hintUses) :
      CountSetBoard(t.effs) > 0 =>
        /\ t.hu = hintUses + 1
        /\ t.ret = "good"

\* C22: after any hint that publishes a board (first-move path included), if
\* the published board satisfies the win predicate then the terminal state is
\* 'won', every mine is revealed and the hint counter is zero.
C22_HintWinRecorded ==
  Running =>
    \A t \in hint(ctxNext0, started, hintUses) :
      CountSetBoard(t.effs) > 0 /\ checkWin(t.next) =>
        /\ after(t).gameOver = "won"
        /\ MinesOf(after(t).board) \subseteq RevealedOf(after(t).board)
        /\ t.hu = 0

\* C23: no hint call reveals a mine cell on the board it builds and
\* publishes, and no hint call sets the terminal state 'lost'.
C23_HintNeverOpensMine ==
  Running =>
    \A t \in hint(ctxNext0, started, hintUses) :
      /\ \A p \in RevealedOf(t.next) \ RevealedOf(board) : ~t.next[p].isMine
      /\ ~t.hit
      /\ \A i \in 1 .. Len(t.effs) : t.effs[i] # SetLost
      /\ after(t).gameOver # "lost"

\* a started session with a hidden unflagged mine that hint could have picked,
\* in which hint opens a cell
C23_Witness ==
  /\ Running /\ started
  /\ \E p \in Candidates(board) : board[p].isMine
  /\ \E t \in hint(ctxNext0, started, hintUses) :
       RevealedOf(t.next) # RevealedOf(board)

\* C24 as stated: hint returns 'none', queues no update and leaves the counter
\* when the board has no hidden unflagged cell, or when the session is started
\* and every hidden unflagged cell is a mine.
C24_HintNone ==
  Running /\ (Candidates(board) = {}
                \/ (started /\ \A p \in Candidates(board) : board[p].isMine)) =>
    \A t \in hint(ctxNext0, started, hintUses) :
      t.ret = "none" /\ t.effs = <<>> /\ t.hu = hintUses

\* C24 amended: while the counter is below MAX_HINTS and the board does not
\* already satisfy the win predicate, hint returns 'none' in those two cases;
\* in those two cases it never queues an update or changes the counter.
C24_HintNoneUnlessDone ==
  Running /\ (Candidates(board) = {}
                \/ (started /\ \A p \in Candidates(board) : board[p].isMine)) =>
    \A t \in hint(ctxNext0, started, hintUses) :
      /\ t.ret = IF hintUses >= MAX_HINTS \/ checkWin(board) THEN "done" ELSE "none"
      /\ t.effs = <<>>
      /\ after(t) = [board |-> board, started |-> started,
                     gameOver |-> gameOver, flagsLeft |-> flagsLeft]
      /\ t.hu = hintUses

\* a started live board with hints left whose hidden unflagged cells are all
\* mines while a safe cell is still hidden under a flag
C24_Witness ==
  /\ Running /\ started /\ hintUses < MAX_HINTS /\ ~checkWin(board)
  /\ Candidates(board) # {}
  /\ \A p \in Candidates(board) : board[p].isMine
  /\ \E t \in hint(ctxNext0, started, hintUses) : t.ret = "none"

\* every flag-toggle result a player click can produce in this state
FlagToggles ==
  UNION {toggleFlag(ctxNext0, p, hintUses) : p \in Pos}

HasSetFlagsLeft(effs) == \E i \in 1 .. Len(effs) : effs[i].t = "setFlagsLeft"

C26_TerminalFrozenUntilReset ==
  [][(InSession /\ gameOver # "null") =>
       \/ UNCHANGED <<board, flagsLeft, gameOver>>
       \/ /\ gameOver' = "null"
          /\ board' = createEmptyBoard(GridSize, GridSize)
          /\ flagsLeft' = MineCount
          /\ ~started']_vars

\* a lost game with hidden unflagged cells left that a click, a hint or a
\* solver turn would otherwise open
C26_Witness ==
  /\ InSession /\ gameOver = "lost"
  /\ Candidates(board) # {}

\* every result a player left click can produce in this state
PlayerReveals ==
  UNION {revealCell(ctxNext0, started, p, hintUses) : p \in Pos}

\* C27: in interactive mode the player and the AI strictly alternate: once a
\* player reveal has been applied and the turn is the AI's, no player reveal
\* is applied until the AI has taken its turn.
C27_StrictAlternation ==
  pc = "page" /\ aiMode = "interactive" /\ gameOver = "null" /\ ~isUserTurn =>
    \A t \in PlayerReveals : t.effs = <<>> /\ after(t).board = board

\* C28: in automatic mode, while the game is not over, every firing of the
\* interval applies one solver turn to the committed board, whatever the
\* difficulty: the turn publishes a board with at least one more cell
\* revealed, which is what brings an automatic session to a terminal state.
C28_TickAppliesSolverTurn ==
  pc = "auto" /\ aiMode = "automatic" /\ gameOver = "null" =>
    \A t \in aiMove(aiDifficulty, ctxNext0, started, hintUses) :
      /\ CountSetBoard(t.effs) > 0
      /\ RevealedOf(board) \subseteq RevealedOf(after(t).board)
      /\ RevealedOf(after(t).board) # RevealedOf(board)

\* the consequence drawn from it: with the interval firing again and again,
\* an automatic session reaches a terminal state
AutomaticReachesTerminal ==
  (pc = "auto" /\ aiMode = "automatic") => <>(gameOver # "null")

RECURSIVE floodClosure(_, _)
\* the least set that contains S and, for each of its cells whose adjacent is
\* 0, every 8-neighbour that is hidden, not a mine and not flagged on b
floodClosure(b, S) ==
  LET add == {q \in Pos : /\ ~b[q].revealed /\ ~b[q].isMine /\ ~b[q].flagged
                          /\ \E p \in S : b[p].adjacent = 0 /\ Chebyshev(p, q) = 1}
  IN IF add \subseteq S THEN S ELSE floodClosure(b, S \cup add)

\* C29: floodFill from a hidden, unflagged start cell reveals exactly the
\* least set that contains the start and, for every cell of the set whose
\* adjacent is 0, each 8-neighbour that was hidden, is not a mine and is not
\* flagged; it changes no field other than revealed, un-reveals nothing, and
\* changes nothing when the start is already revealed or flagged.
C29_FloodRevealsClosure ==
  pc = "flood" =>
    /\ \A p \in Pos : board[p] = [orig[p] EXCEPT !.revealed = board[p].revealed]
    /\ RevealedOf(orig) \subseteq RevealedOf(board)
    /\ IF orig[arg].revealed \/ orig[arg].flagged
       THEN board = orig
       ELSE NewlyRevealed = floodClosure(orig, {arg})

\* an expansion from a zero cell that stops at a numbered frontier and leaves
\* a safe cell hidden behind it
C29_Witness ==
  /\ pc = "flood"
  /\ ~orig[arg].revealed /\ ~orig[arg].flagged /\ orig[arg].adjacent = 0
  /\ Cardinality(NewlyRevealed) >= 4
  /\ \E p \in NewlyRevealed : board[p].adjacent > 0
  /\ \E p \in Pos : ~board[p].revealed /\ ~board[p].isMine /\ ~board[p].flagged
  /\ \E p \in Pos : board[p].isMine /\ board[p].adjacent = -1

\* C30: in a mediumAi or hardAi turn, with H the hidden unflagged neighbours
\* and F the flagged neighbours of a revealed cell with adjacent > 0 on the
\* board at turn start, the Rule-A set is exactly the union of H over cells
\* with |H| = adjacent - |F| and H non-empty, the Rule-B set is exactly the
\* union of H over cells with |F| = adjacent and H non-empty, and every
\* Rule-A cell is flagged before any cell is opened: the flags the turn adds
\* are the Rule-A set, and the cell it opens is not one of them unless the
\* turn first removes that cell's flag because nothing else is left.
C30_RuleSetsExact ==
  Running =>
    /\ Range(bucket(ctxNext0, "rule1")) = RuleASet(board)
    /\ Range(bucket(ctxNext0, "rule2")) = RuleBSet(board)
    /\ \A t \in mediumAi(ctxNext0, started, hintUses)
                  \cup hardAi(ctxNext0, started, hintUses) :
         LET unflagged == IF t.ret = "unflag" THEN {t.cell} ELSE {}
         IN /\ FlaggedOf(t.next) \cup unflagged
                 = FlaggedOf(board) \cup RuleASet(board)
            /\ t.cell \notin RuleASet(board) \ unflagged
            /\ RuleASet(board) # {} =>
                 /\ t.effs # <<>>
                 /\ Head(t.effs).t = "setFlagsLeft"

\* a turn on a board where both rules fire: it flags the Rule-A cells and
\* opens a Rule-B cell
C30_Witness ==
  /\ Running
  /\ RuleASet(board) # {} /\ RuleBSet(board) # {}
  /\ \E t \in mediumAi(ctxNext0, started, hintUses) :
       /\ RuleASet(board) \subseteq FlaggedOf(t.next)
       /\ t.cell \in RuleBSet(board)
  /\ \E t \in hardAi(ctxNext0, started, hintUses) :
       /\ RuleASet(board) \subseteq FlaggedOf(t.next)
       /\ t.cell \in RuleBSet(board)

\* C31: while the game is not over, no cell of the committed board is both
\* flagged and revealed, whatever player reveals, flag toggles, solver turns
\* and hints came before; no handler run leaves such a cell on a live board.
C31_NoFlaggedRevealed ==
  Running =>
    /\ FlaggedOf(board) \cap RevealedOf(board) = {}
    /\ \A t \in Invocations \cup PlayerReveals \cup FlagToggles :
         after(t).gameOver = "null" =>
           FlaggedOf(after(t).board) \cap RevealedOf(after(t).board) = {}

\* a live board on which an expansion has walked around a flagged cell: a
\* revealed zero cell has a flagged hidden neighbour
C31_Witness ==
  /\ Running /\ started
  /\ \E p \in RevealedOf(board) : \E q \in FlaggedOf(board) :
       Chebyshev(p, q) = 1 /\ board[p].adjacent = 0 /\ ~board[q].revealed
  /\ Cardinality(RevealedOf(board)) >= 3

\* the cells placeMines may still turn into mines: not mines on the board it
\* is given and outside the 3x3 zone around `exclude`
EligibleCells == {p \in Pos : ~orig[p].isMine /\ Chebyshev(p, arg) > 1}

\* C32: placeMines eventually returns, under fair sampling, whenever count is
\* at most the number of non-mine cells outside the 3x3 exclusion zone, and
\* never returns when count exceeds that number.
C32_PlaceMinesTerminatesIffFeasible ==
  /\ (pc = "pm" /\ cnt <= Cardinality(EligibleCells)) => <>(pc = "pm_done")
  /\ [](pc \in {"pm", "pm_done"} /\ cnt > Cardinality(EligibleCells) =>
          pc = "pm" /\ placed < cnt)

\* a call that returned after placing as many mines as its count on a board
\* whose exclusion zone left three eligible cells
C32_Witness ==
  /\ pc = "pm_done"
  /\ cnt = MineCount /\ placed = cnt
  /\ Cardinality(EligibleCells) = 3

\* C33: in mediumAi and hardAi the flags-only publish path is never taken:
\* every turn that places at least one flag also opens a cell, possibly after
\* un-flagging one in deadlock recovery.
C33_FlagsOnlyNeverTaken ==
  Running =>
    \A t \in mediumAi(ctxNext0, started, hintUses)
               \cup hardAi(ctxNext0, started, hintUses) :
      /\ t.ret # "flags-only"
      /\ (RuleASet(board) # {} \/ FlaggedOf(t.next) \ FlaggedOf(board) # {}) =>
           /\ t.cell \in Pos
           /\ t.next[t.cell].revealed /\ ~board[t.cell].revealed
           /\ CountSetBoard(t.effs) > 0

\* a turn that flags the last hidden unflagged cells and, with nothing left to
\* open, removes a flag and opens that cell
C33_Witness ==
  /\ Running
  /\ RuleASet(board) # {}
  /\ \E t \in mediumAi(ctxNext0, started, hintUses) : t.ret = "unflag"
  /\ \E t \in hardAi(ctxNext0, started, hintUses) : t.ret = "unflag"

\* a revealed axis-aligned run of three cells with adjacency 1, 2, 1
Has121(b) ==
  \E p \in Pos :
    \/ p[2] >= 1 /\ p[2] < GridSize - 1
         /\ is121(b, <<p[1], p[2] - 1>>, p, <<p[1], p[2] + 1>>)
    \/ p[1] >= 1 /\ p[1] < GridSize - 1
         /\ is121(b, <<p[1] - 1, p[2]>>, p, <<p[1] + 1, p[2]>>)

\* C34: on every started board hardAi and mediumAi flag exactly the same set of
\* cells: the 1-2-1 pattern step of hardAi adds no cell to the flag set beyond
\* those produced by Rule A.
C34_HardFlagsAsMedium ==
  Running /\ started =>
    LET bm == applyFlags(ctxNext0, mediumToFlag(ctxNext0))
        bh == applyFlags(ctxNext0, hardToFlag(ctxNext0))
    IN /\ hardToFlag(ctxNext0) = mediumToFlag(ctxNext0)
       /\ Range(hardToFlag(ctxNext0)) = RuleASet(board)
       /\ bh = bm
       /\ \A t \in hardAi(ctxNext0, started, hintUses) :
            FlaggedOf(t.next) \cup (IF t.ret = "unflag" THEN {t.cell} ELSE {})
              = FlaggedOf(bm)
       /\ \A t \in mediumAi(ctxNext0, started, hintUses) :
            FlaggedOf(t.next) \cup (IF t.ret = "unflag" THEN {t.cell} ELSE {})
              = FlaggedOf(bm)

\* a started board showing a 1-2-1 run on which Rule A flags a cell
C34_Witness ==
  /\ Running /\ started
  /\ Has121(board)
  /\ RuleASet(board) # {}
  /\ \E t \in hardAi(ctxNext0, started, hintUses) :
       FlaggedOf(t.next) \ FlaggedOf(board) # {}

\* C35: from a fresh session in which only hardAi acts, terminal state 'lost'
\* is never reached and every flag on the committed board is on a mine.
C35_HardAloneNeverLosesFlagsMines ==
  pc = "hard" =>
    /\ gameOver # "lost"
    /\ FlaggedOf(board) \subseteq MinesOf(board)
    /\ gameOver = "null" => MinesOf(board) \cap RevealedOf(board) = {}

\* a live hardAi-only session in which a flag placed by an earlier turn
\* stands and hardAi is to move again
C35_Witness ==
  /\ pc = "hard" /\ Running /\ started
  /\ FlaggedOf(board) # {}
  /\ \E t \in hardAi(ctxNext0, started, hintUses) : t.cell \in Pos /\ ~t.hit

\* C36: from a fresh session in which hardAi is invoked repeatedly with the
\* committed state, every turn before the terminal state reveals at least one
\* new cell, and the session eventually reaches terminal state 'won': until
\* 'won' is set a call always has a result, and every result adds a revealed
\* cell to the at most GridSize * GridSize revealed ones, hides none and does
\* not set 'lost'.
C36_HardAloneRevealsAndWins ==
  pc = "hard" =>
    \/ gameOver = "won"
    \/ /\ gameOver = "null"
       /\ Cardinality(RevealedOf(board)) < GridSize * GridSize
       /\ hardAi(ctxNext0, started, hintUses) # {}
       /\ \A t \in hardAi(ctxNext0, started, hintUses) :
            /\ \E p \in Pos : ~board[p].revealed /\ after(t).board[p].revealed
            /\ RevealedOf(board) \subseteq RevealedOf(after(t).board)
            /\ after(t).gameOver \in {"null", "won"}

\* a live hardAi-only session, several turns in, whose next turn wins
C36_Witness ==
  /\ pc = "hard" /\ Running /\ started
  /\ FlaggedOf(board) # {}
  /\ \E t \in hardAi(ctxNext0, started, hintUses) : after(t).gameOver = "won"

\* C37: in a started, live session, a mediumAi or hardAi turn that begins with
\* every flag on a mine flags only mines, opens no mine from the post-flag
\* Rule-B, the original Rule-B or the safe-expansion set, and sets 'lost' only
\* through the random-guess fallback.
C37_DeductionSound ==
  Running /\ started /\ FlaggedOf(board) \subseteq MinesOf(board) =>
    \A t \in mediumAi(ctxNext0, started, hintUses)
               \cup hardAi(ctxNext0, started, hintUses) :
      /\ FlaggedOf(t.next) \subseteq MinesOf(t.next)
      /\ Range(hardToFlag(ctxNext0)) \subseteq MinesOf(board)
      /\ t.ret \in {"rule2-post", "rule2", "zero"} => ~t.hit /\ ~board[t.cell].isMine
      /\ after(t).gameOver = "lost" => t.ret = "random"

\* C38: a mediumAi or hardAi invocation on a committed board that already
\* satisfies the win predicate never reveals a mine and never sets 'lost'.
C38_NoLossOnWonBoard ==
  Running /\ checkWin(board) =>
    \A t \in mediumAi(ctxNext0, started, hintUses)
               \cup hardAi(ctxNext0, started, hintUses) :
      /\ ~t.hit
      /\ MinesOf(after(t).board) \cap RevealedOf(after(t).board) = {}
      /\ after(t).gameOver # "lost"

\* C39: in every state in which the game is not over, the page's hintsUsed
\* equals the hint module's hintUses, so the player can always obtain 3
\* successful hints per session.
C39_HintCountersAgree ==
  pc = "hints" /\ gameOver = "null" =>
    /\ hintsUsed = hintUses
    /\ hintsUsed >= PageHintLimit => hintPubs >= MAX_HINTS

====
